---- MODULE Spec2Model ----
(***************************************************************************)
(* codeown: derivation of a CODEOWNERS file from git history.              *)
(*                                                                         *)
(* The module models one run of CodeOwnersApp.runAnalysis driving a        *)
(* CodeOwnersGenerator (src/src/lib/generator.ts) and its ConfigManager    *)
(* (src/src/lib/config.ts).  Strings that the code takes apart (paths,     *)
(* glob patterns, e-mail addresses, owner names) are sequences of          *)
(* one-character strings, so that split, includes, startsWith, minimatch   *)
(* and localeCompare are computed character by character.                  *)
(***************************************************************************)
EXTENDS Integers, Sequences, FiniteSets, TLC

(***************************************************************************)
(* Bounds of the model.                                                    *)
(***************************************************************************)
\* longest list of paths that `git ls-files` returns
MaxFiles == 2

\* most segments of a pattern or a path given to the pattern lookups alone
MaxSegments == 3

\* longest include list and longest exclude list given to the file filter alone
MaxListed == 2

(***************************************************************************)
(* Generic helpers on sequences (JavaScript string and array primitives).  *)
(***************************************************************************)
Min(a, b) == IF a <= b THEN a ELSE b

Max(a, b) == IF a >= b THEN a ELSE b

Range(s) == { s[i] : i \in DOMAIN s }

\* String.prototype.includes for a single character
Includes(s, c) == \E i \in DOMAIN s : s[i] = c

\* String.prototype.includes("**")
IncludesStarStar(s) == \E i \in 1..(Len(s) - 1) : s[i] = "*" /\ s[i + 1] = "*"

\* number of occurrences of character c, as (s.match(/c/g) || []).length
CountChar(s, c) == Cardinality({ i \in DOMAIN s : s[i] = c })

\* position of the first occurrence of c in s, 0 when there is none
IndexOf(s, c) == IF Includes(s, c) THEN CHOOSE i \in DOMAIN s : s[i] = c /\ \A j \in 1..(i - 1) : s[j] # c ELSE 0

\* position of the last occurrence of c in s, 0 when there is none
LastIndexOf(s, c) == IF Includes(s, c) THEN CHOOSE i \in DOMAIN s : s[i] = c /\ \A j \in (i + 1)..Len(s) : s[j] # c ELSE 0

\* String.prototype.split(c): the pieces between the occurrences of c
RECURSIVE Split(_, _)
Split(s, c) ==
  IF ~Includes(s, c) THEN << s >>
  ELSE << SubSeq(s, 1, IndexOf(s, c) - 1) >> \o Split(SubSeq(s, IndexOf(s, c) + 1, Len(s)), c)

(***************************************************************************)
(* minimatch(path, pattern), default options, on the characters of the     *)
(* model's alphabet: letters, "/", "*" and "?".                            *)
(***************************************************************************)
\* one path segment against one pattern segment: "*" is any run of
\* characters of the segment, "?" is any one character
RECURSIVE MatchSegment(_, _)
MatchSegment(f, p) ==
  IF p = << >> THEN f = << >>
  ELSE IF Head(p) = "*" THEN MatchSegment(f, Tail(p)) \/ (f # << >> /\ MatchSegment(Tail(f), p))
  ELSE IF Head(p) = "?" THEN f # << >> /\ MatchSegment(Tail(f), Tail(p))
  ELSE f # << >> /\ Head(f) = Head(p) /\ MatchSegment(Tail(f), Tail(p))

\* a whole pattern segment "**" is the globstar
IsGlobStar(p) == p = << "*", "*" >>

\* minimatch's matchOne on the lists of segments: the globstar swallows
\* zero or more whole segments, and needs a segment to stand on
RECURSIVE MatchOne(_, _)
MatchOne(file, pattern) ==
  IF file = << >> /\ pattern = << >> THEN TRUE
  ELSE IF file = << >> THEN FALSE
  ELSE IF pattern = << >> THEN Len(file) = 1 /\ file[1] = << >>
  ELSE IF IsGlobStar(Head(pattern))
    THEN \/ Len(pattern) = 1
         \/ \E fr \in 1..Len(file) : MatchOne(SubSeq(file, fr, Len(file)), Tail(pattern))
  ELSE MatchSegment(Head(file), Head(pattern)) /\ MatchOne(Tail(file), Tail(pattern))

Minimatch(filepath, pattern) ==
  pattern # << >> /\ MatchOne(Split(filepath, "/"), Split(pattern, "/"))

(***************************************************************************)
(* The alphabet: names of the model's strings.                             *)
(***************************************************************************)
\* tracked paths of the repository
PathAB == << "a", "/", "b" >>

PathAC == << "a", "/", "c" >>

PathC == << "C" >>

Paths == { PathAB, PathAC, PathC }

\* author e-mail addresses; two of them share the part before the "@"
EmailAX == << "a", "@", "x" >>

EmailAY == << "a", "@", "y" >>

EmailBX == << "b", "@", "x" >>

\* owner names of the configuration
OwnerS == << "s" >>

OwnerT == << "t" >>

OwnerD == << "d" >>

OwnerL == << "@", "l" >>

OwnerA == << "a" >>

(***************************************************************************)
(* CodeownConfig: the optional fields of codeown.json.  `present` names    *)
(* the fields the document sets; an absent field reads as undefined, and   *)
(* holds the empty value here.  A number field that is absent or 0 is      *)
(* falsy either way, so 0 stands for both.                                 *)
(***************************************************************************)
EmptyConfig ==
  [ present |-> {}, members |-> << >>, include |-> << >>, exclude |-> << >>,
    overrides |-> << >>, defaultOwners |-> << >>, maxOwners |-> 0, minOwners |-> 0,
    projectOwners |-> << >> ]

\* the override map, in the insertion order of its keys
OverridesOption ==
  << [ pattern |-> << "*", "/", "*" >>, owners |-> << OwnerL >> ],
     [ pattern |-> << "*", "/", "b" >>, owners |-> << OwnerS, OwnerT >> ],
     [ pattern |-> << "a", "/", "*" >>, owners |-> << OwnerS >> ],
     [ pattern |-> << "a", "/", "c" >>, owners |-> << OwnerT >> ] >>

\* the default-owners map, in the insertion order of its keys
DefaultOwnersOption ==
  << [ pattern |-> << "*", "*" >>, owners |-> << OwnerL >> ],
     [ pattern |-> << "a", "/", "*" >>, owners |-> << OwnerA, OwnerD >> ] >>

\* the project owners as listed; one name is listed twice
ProjectOwnersOption == << OwnerD, OwnerD, OwnerL >>

MembersOption == << OwnerA >>

IncludeOption == << << "a" >> >>

ExcludeOption == << << "*", "/", "c" >> >>

\* a codeown.json that sets the fields given a non-empty (non-zero) value
PolicyConfig(m, o, d, mx, mn, p) ==
  [ present |-> (IF m # << >> THEN { "members" } ELSE {})
                \cup (IF o # << >> THEN { "overrides" } ELSE {})
                \cup (IF d # << >> THEN { "defaultOwners" } ELSE {})
                \cup (IF p # << >> THEN { "projectOwners" } ELSE {}),
    members |-> m, include |-> << >>, exclude |-> << >>,
    overrides |-> o, defaultOwners |-> d, maxOwners |-> mx, minOwners |-> mn,
    projectOwners |-> p ]

\* the owner policies without a members list: every combination of the
\* options above that decide the owners of a file
PolicyConfigs ==
  { PolicyConfig(<< >>, o, d, mx, mn, p) :
      o \in { << >>, OverridesOption }, d \in { << >>, DefaultOwnersOption },
      mx \in { 0, 1 }, mn \in { 0, 3 }, p \in { << >>, ProjectOwnersOption } }

\* the owner policies with a members list
MemberConfigs ==
  { PolicyConfig(MembersOption, << >>, d, 0, mn, ProjectOwnersOption) :
      d \in { << >>, DefaultOwnersOption }, mn \in { 0, 3 } }

\* the file filters: include and exclude lists, with and without overrides
FilterConfigs ==
  { [ EmptyConfig EXCEPT !.present = { "include", "exclude" } \cup (IF o # << >> THEN { "overrides" } ELSE {}),
                         !.include = IncludeOption, !.exclude = ExcludeOption, !.overrides = o ] :
    o \in { << >>, OverridesOption } }

\* an override map that leaves a/c and C to the tally, with default owners
NarrowOverridesConfig ==
  [ EmptyConfig EXCEPT !.present = { "overrides", "defaultOwners" },
                       !.overrides = << [ pattern |-> << "*", "/", "b" >>, owners |-> << OwnerS >> ] >>,
                       !.defaultOwners = DefaultOwnersOption ]

\* the configurations the run is checked with
Configs == PolicyConfigs \cup MemberConfigs \cup FilterConfigs \cup { NarrowOverridesConfig }

\* the commits that `git log --since --follow -- <path>` prints for each
\* tracked path, newest first, one "%ae|%an" line each
GitLog(filepath) ==
  IF filepath = PathAB
    THEN << [ email |-> EmailBX, name |-> << "b" >> ], [ email |-> EmailAX, name |-> << "a" >> ],
            [ email |-> EmailAY, name |-> << "a" >> ], [ email |-> EmailAX, name |-> << "a" >> ] >>
  ELSE IF filepath = PathC THEN << [ email |-> EmailAX, name |-> << "a" >> ] >>
  ELSE << >>

\* the lists `git ls-files` may print
RECURSIVE SeqsUpTo(_, _)
SeqsUpTo(S, n) ==
  IF n = 0 THEN { << >> }
  ELSE SeqsUpTo(S, n - 1) \cup { Append(q, x) : q \in { r \in SeqsUpTo(S, n - 1) : Len(r) = n - 1 }, x \in S }

\* the index lists each path once, in any order here; an unmerged path is
\* listed once per stage
UnmergedList == << PathAB, PathAB >>

TrackedLists ==
  { q \in SeqsUpTo(Paths, MaxFiles) : \A j, k \in DOMAIN q : j # k => q[j] # q[k] } \cup { UnmergedList }

\* what the configuration file holds when the run starts
ConfigSources ==
  { [ kind |-> "absent", config |-> EmptyConfig ], [ kind |-> "malformed", config |-> EmptyConfig ],
    [ kind |-> "missing", config |-> EmptyConfig ] }
  \cup { [ kind |-> "valid", config |-> c ] : c \in Configs }

VARIABLES
  configSource,     \* environment: the content of the configuration file, once read
  lsFiles,          \* environment: the paths `git ls-files` prints, once asked
  config,           \* ConfigManager.config
  minCommits,       \* CodeOwnersGenerator.minCommits
  aborted,          \* abortSignal.aborted
  fileStats,        \* CodeOwnersGenerator.fileStats, in insertion order
  emailToUsername,  \* CodeOwnersGenerator.emailToUsername
  pc,               \* the await at which runAnalysis is suspended
  phase,            \* AppState.phase
  files,            \* analyzeRepository: files
  i,                \* analyzeRepository: i
  fileOwners,       \* generateCodeowners: fileOwners
  output,           \* the CODEOWNERS file in the repository
  appStats,         \* AppState.stats
  events            \* history: calls to the collaborators, in order

vars ==
  << configSource, lsFiles, config, minCommits, aborted, fileStats, emailToUsername,
     pc, phase, files, i, fileOwners, output, appStats, events >>

(***************************************************************************)
(* ConfigManager (src/src/lib/config.ts).                                  *)
(***************************************************************************)
getMaxOwners == IF config.maxOwners # 0 THEN config.maxOwners ELSE 3

getMinOwners == IF config.minOwners # 0 THEN config.minOwners ELSE 1

getProjectOwners == config.projectOwners

shouldIncludeContributor(email, username) ==
  IF config.members = << >> THEN TRUE
  ELSE username \in Range(config.members) \/ email \in Range(config.members)

\* a pattern without wildcard that does not end in "/" also stands for
\* everything beneath it
normalizedPattern(pattern) ==
  IF pattern # << >> /\ pattern[Len(pattern)] = "/" THEN pattern \o << "*", "*", "/", "*" >>
  ELSE IF Includes(pattern, "*") THEN pattern
  ELSE pattern \o << "/", "*", "*", "/", "*" >>

matchesListed(filepath, pattern) ==
  Minimatch(filepath, normalizedPattern(pattern)) \/ Minimatch(filepath, pattern)

\* variant: a file that the include list matches is included at once
shouldIncludeFile_includeFirst(filepath) ==
  IF config.include # << >> /\ (\E n \in DOMAIN config.include : matchesListed(filepath, config.include[n]))
    THEN TRUE
  ELSE IF config.include # << >> THEN FALSE
  ELSE IF config.exclude # << >> /\ (\E n \in DOMAIN config.exclude : matchesListed(filepath, config.exclude[n]))
    THEN FALSE
  ELSE TRUE

shouldIncludeFile(filepath) ==
  IF config.include # << >> /\ ~(\E n \in DOMAIN config.include : matchesListed(filepath, config.include[n]))
    THEN FALSE
  ELSE IF config.exclude # << >> /\ (\E n \in DOMAIN config.exclude : matchesListed(filepath, config.exclude[n]))
    THEN FALSE
  ELSE TRUE

\* variant: the depth of the pattern alone
getPatternSpecificity_depthOnly(pattern) == Len(Split(pattern, "/")) * 10

getPatternSpecificity(pattern) ==
  (IF ~Includes(pattern, "*") /\ ~Includes(pattern, "?") THEN 1000 ELSE 0)
  + Len(Split(pattern, "/")) * 10
  - CountChar(pattern, "*") * 5
  - (IF IncludesStarStar(pattern) THEN 50 ELSE 0)

\* Array.prototype.sort((a, b) => specificity(b) - specificity(a)) on the
\* entries of a pattern map: descending, and stable
RECURSIVE sortedPatterns(_)
sortedPatterns(entries) ==
  IF entries = << >> THEN << >>
  ELSE LET init == sortedPatterns(SubSeq(entries, 1, Len(entries) - 1))
           last == entries[Len(entries)]
           keep == { n \in DOMAIN init :
                       getPatternSpecificity(init[n].pattern) >= getPatternSpecificity(last.pattern) }
           k == Cardinality(keep)
       IN  SubSeq(init, 1, k) \o << last >> \o SubSeq(init, k + 1, Len(init))

\* the owner list of the first pattern, in the sorted order, that matches;
\* `found` is false where the code returns null
firstMatch(filepath, sorted) ==
  LET hits == { n \in DOMAIN sorted : Minimatch(filepath, sorted[n].pattern) }
  IN  IF hits = {} THEN [ found |-> FALSE, owners |-> << >> ]
      ELSE [ found |-> TRUE,
             owners |-> sorted[CHOOSE n \in hits : \A j \in hits : n <= j].owners ]

\* variant: the first matching pattern in the order of the map
getOverrideOwners_unsorted(filepath) ==
  IF "overrides" \notin config.present THEN [ found |-> FALSE, owners |-> << >> ]
  ELSE firstMatch(filepath, config.overrides)

getOverrideOwners(filepath) ==
  IF "overrides" \notin config.present THEN [ found |-> FALSE, owners |-> << >> ]
  ELSE firstMatch(filepath, sortedPatterns(config.overrides))

getDefaultOwners(filepath) ==
  IF "defaultOwners" \notin config.present THEN [ found |-> FALSE, owners |-> << >> ]
  ELSE firstMatch(filepath, sortedPatterns(config.defaultOwners))

(***************************************************************************)
(* CodeOwnersGenerator (src/src/lib/generator.ts).                         *)
(***************************************************************************)
\* path.extname: the basename from its last "." on, empty when it has none
\* or only a leading one
extname(file) ==
  LET base == SubSeq(file, LastIndexOf(file, "/") + 1, Len(file))
  IN  IF LastIndexOf(base, ".") <= 1 THEN << >> ELSE SubSeq(base, LastIndexOf(base, "."), Len(base))

\* String.prototype.toLowerCase over the letters of the model
toLowerCase(s) == [ k \in DOMAIN s |-> IF s[k] = "C" THEN "c" ELSE s[k] ]

\* the extensions of the list that the letters of the model can spell
excludedExtensions == { << ".", "s", "o" >>, << ".", "o" >> }

hasExcludedExtension(file) == toLowerCase(extname(file)) \in excludedExtensions

\* getAllFiles: the non-empty lines of the output, filtered
getAllFiles(lsOutput) ==
  SelectSeq(lsOutput, LAMBDA file : file # << >> /\ ~hasExcludedExtension(file) /\ shouldIncludeFile(file))

extractUsername(email, name) == Split(email, "@")[1]

\* this.emailToUsername.get(email) || email.split("@")[0]
usernameOf(e2u, email) ==
  IF email \in DOMAIN e2u /\ e2u[email] # << >> THEN e2u[email] ELSE Split(email, "@")[1]

\* contributors[email] = (contributors[email] || 0) + 1, keys in insertion order
increment(contributors, email) ==
  IF \E k \in DOMAIN contributors : contributors[k].email = email
    THEN [ k \in DOMAIN contributors |->
             IF contributors[k].email = email
               THEN [ contributors[k] EXCEPT !.count = @ + 1 ] ELSE contributors[k] ]
  ELSE Append(contributors, [ email |-> email, count |-> 1 ])

\* analyzeFileContributions: the tally of the printed lines
RECURSIVE tallyLines(_, _)
tallyLines(lines, contributors) ==
  IF lines = << >> THEN contributors
  ELSE IF Head(lines).email = << >> \/ Head(lines).name = << >> THEN tallyLines(Tail(lines), contributors)
  ELSE tallyLines(Tail(lines), increment(contributors, Head(lines).email))

\* analyzeFileContributions: the name mapping, set at an e-mail's first sight
RECURSIVE rememberNames(_, _)
rememberNames(lines, e2u) ==
  IF lines = << >> THEN e2u
  ELSE IF Head(lines).email = << >> \/ Head(lines).name = << >> THEN rememberNames(Tail(lines), e2u)
  ELSE IF Head(lines).email \in DOMAIN e2u THEN rememberNames(Tail(lines), e2u)
  ELSE rememberNames(Tail(lines),
         [ e \in DOMAIN e2u \cup { Head(lines).email } |->
             IF e \in DOMAIN e2u THEN e2u[e] ELSE extractUsername(e, Head(lines).name) ])

\* runGitCommand: the output, or "" when git fails
runGitLog(filepath, failed) == IF failed THEN << >> ELSE GitLog(filepath)

\* this.fileStats[filepath] = contributors
setFileStats(stats, filepath, contributors) ==
  IF \E k \in DOMAIN stats : stats[k].filepath = filepath
    THEN [ k \in DOMAIN stats |->
             IF stats[k].filepath = filepath
               THEN [ filepath |-> filepath, contributors |-> contributors ] ELSE stats[k] ]
  ELSE Append(stats, [ filepath |-> filepath, contributors |-> contributors ])

hasFileStats(stats, filepath) == \E k \in DOMAIN stats : stats[k].filepath = filepath

\* variant: the contributors in the order of the tally
sortByCount_unsorted(contributors) == contributors

\* Array.prototype.sort(([, a], [, b]) => b - a): descending by count, stable
RECURSIVE sortByCount(_)
sortByCount(contributors) ==
  IF contributors = << >> THEN << >>
  ELSE LET init == sortByCount(SubSeq(contributors, 1, Len(contributors) - 1))
           last == contributors[Len(contributors)]
           k == Cardinality({ j \in DOMAIN init : init[j].count >= last.count })
       IN  SubSeq(init, 1, k) \o << last >> \o SubSeq(init, k + 1, Len(init))

validContributors(e2u, contributors) ==
  sortByCount(SelectSeq(contributors,
    LAMBDA c : shouldIncludeContributor(c.email, usernameOf(e2u, c.email))))

\* variant: every valid contributor, without the maxOwners cap
topOwners_uncapped(e2u, valid) ==
  LET kept == SelectSeq(valid, LAMBDA c : c.count >= minCommits)
  IN  [ k \in DOMAIN kept |-> usernameOf(e2u, kept[k].email) ]

\* the first min(maxOwners, length) contributors, those below minCommits left out
topOwners(e2u, valid) ==
  LET n == Min(getMaxOwners, Len(valid))
      top == SubSeq(valid, 1, n)
      kept == SelectSeq(top, LAMBDA c : c.count >= minCommits)
  IN  [ k \in DOMAIN kept |-> usernameOf(e2u, kept[k].email) ]

\* one supplementing loop: push the candidates not in ownersSet until
\* minOwners is reached; the first loop also adds what it pushes to the set
RECURSIVE pushUnused(_, _, _, _)
pushUnused(candidates, owners, ownersSet, addToSet) ==
  IF candidates = << >> THEN owners
  ELSE IF Head(candidates) \in ownersSet THEN pushUnused(Tail(candidates), owners, ownersSet, addToSet)
  ELSE IF Len(owners) + 1 >= getMinOwners THEN Append(owners, Head(candidates))
  ELSE pushUnused(Tail(candidates), Append(owners, Head(candidates)),
                  IF addToSet THEN ownersSet \cup { Head(candidates) } ELSE ownersSet, addToSet)

\* variant: supplementing from defaultOwners only
supplementOwners_defaultsOnly(filepath, owners) ==
  IF ~(Len(owners) > 0 /\ Len(owners) < getMinOwners) THEN owners
  ELSE LET defaults == getDefaultOwners(filepath)
       IN  IF defaults.found /\ Len(defaults.owners) > 0
             THEN pushUnused(defaults.owners, owners, Range(owners), TRUE)
           ELSE owners

\* defaultOwners first, then projectOwners
supplementOwners(filepath, owners) ==
  IF ~(Len(owners) > 0 /\ Len(owners) < getMinOwners) THEN owners
  ELSE LET defaults == getDefaultOwners(filepath)
           afterDefaults ==
             IF defaults.found /\ Len(defaults.owners) > 0
               THEN pushUnused(defaults.owners, owners, Range(owners), TRUE)
             ELSE owners
       IN  IF Len(afterDefaults) < getMinOwners /\ Len(getProjectOwners) > 0
             THEN pushUnused(getProjectOwners, afterDefaults, Range(afterDefaults), FALSE)
           ELSE afterDefaults

\* variant: an empty selection is filled from the default owners
resolveFile_fillsEmpty(e2u, filepath, contributors) ==
  LET override == getOverrideOwners(filepath)
      valid == validContributors(e2u, contributors)
      top == topOwners(e2u, valid)
      owners == IF Len(top) = 0 THEN getDefaultOwners(filepath).owners ELSE supplementOwners(filepath, top)
  IN  IF override.found THEN << [ filepath |-> filepath, owners |-> override.owners ] >>
      ELSE IF Len(contributors) = 0 THEN << >>
      ELSE IF Len(valid) = 0 THEN << >>
      ELSE IF Len(owners) > 0 THEN << [ filepath |-> filepath, owners |-> owners ] >>
      ELSE << >>

\* the entries of one file of fileStats: one entry, or none
resolveFile(e2u, filepath, contributors) ==
  LET override == getOverrideOwners(filepath)
      valid == validContributors(e2u, contributors)
      owners == supplementOwners(filepath, topOwners(e2u, valid))
  IN  IF override.found THEN << [ filepath |-> filepath, owners |-> override.owners ] >>
      ELSE IF Len(contributors) = 0 THEN << >>
      ELSE IF Len(valid) = 0 THEN << >>
      ELSE IF Len(owners) > 0 THEN << [ filepath |-> filepath, owners |-> owners ] >>
      ELSE << >>

\* the loop over Object.entries(this.fileStats)
RECURSIVE mainPass(_, _)
mainPass(e2u, stats) ==
  IF stats = << >> THEN << >>
  ELSE resolveFile(e2u, Head(stats).filepath, Head(stats).contributors) \o mainPass(e2u, Tail(stats))

\* variant: every listed file that an override matches gets an entry
RECURSIVE overridePass_all(_, _)
overridePass_all(stats, allFiles) ==
  IF allFiles = << >> THEN << >>
  ELSE (IF getOverrideOwners(Head(allFiles)).found
          THEN << [ filepath |-> Head(allFiles), owners |-> getOverrideOwners(Head(allFiles)).owners ] >>
        ELSE << >>)
       \o overridePass_all(stats, Tail(allFiles))

\* variant: a file without fileStats and without override gets its default owners
RECURSIVE overridePass_withDefaults(_, _)
overridePass_withDefaults(stats, allFiles) ==
  IF allFiles = << >> THEN << >>
  ELSE (IF hasFileStats(stats, Head(allFiles)) THEN << >>
        ELSE IF getOverrideOwners(Head(allFiles)).found
          THEN << [ filepath |-> Head(allFiles), owners |-> getOverrideOwners(Head(allFiles)).owners ] >>
        ELSE IF getDefaultOwners(Head(allFiles)).found
          THEN << [ filepath |-> Head(allFiles), owners |-> getDefaultOwners(Head(allFiles)).owners ] >>
        ELSE << >>)
       \o overridePass_withDefaults(stats, Tail(allFiles))

\* the loop over getAllFiles() for the files not in fileStats
RECURSIVE overridePass(_, _)
overridePass(stats, allFiles) ==
  IF allFiles = << >> THEN << >>
  ELSE (IF ~hasFileStats(stats, Head(allFiles)) /\ getOverrideOwners(Head(allFiles)).found
          THEN << [ filepath |-> Head(allFiles), owners |-> getOverrideOwners(Head(allFiles)).owners ] >>
        ELSE << >>)
       \o overridePass(stats, Tail(allFiles))

\* owner.startsWith("@") ? owner.slice(1) : owner
stripAt(owner) == IF Len(owner) > 0 /\ owner[1] = "@" THEN Tail(owner) ELSE owner

\* ownerStats[username] = (ownerStats[username] || 0) + 1, keys in insertion order
incrementOwner(ownerStats, username) ==
  IF \E k \in DOMAIN ownerStats : ownerStats[k].username = username
    THEN [ k \in DOMAIN ownerStats |->
             IF ownerStats[k].username = username
               THEN [ ownerStats[k] EXCEPT !.count = @ + 1 ] ELSE ownerStats[k] ]
  ELSE Append(ownerStats, [ username |-> username, count |-> 1 ])

\* the loop over the owners of an override
RECURSIVE countOverrideOwners(_, _)
countOverrideOwners(owners, ownerStats) ==
  IF owners = << >> THEN ownerStats
  ELSE countOverrideOwners(Tail(owners), incrementOwner(ownerStats, stripAt(Head(owners))))

\* one iteration of the loop of getOwnershipStats over fileStats
countFile(e2u, filepath, contributors, acc) ==
  LET override == getOverrideOwners(filepath)
      valid == validContributors(e2u, contributors)
  IN  IF override.found
        THEN [ stats |-> countOverrideOwners(override.owners, acc.stats), totalFiles |-> acc.totalFiles + 1 ]
      ELSE IF Len(contributors) = 0 THEN acc
      ELSE IF Len(valid) = 0 THEN acc
      ELSE IF valid[1].count >= minCommits
        THEN [ stats |-> incrementOwner(acc.stats, usernameOf(e2u, valid[1].email)),
               totalFiles |-> acc.totalFiles + 1 ]
      ELSE acc

RECURSIVE countFiles(_, _, _)
countFiles(e2u, fstats, acc) ==
  IF fstats = << >> THEN acc
  ELSE countFiles(e2u, Tail(fstats), countFile(e2u, Head(fstats).filepath, Head(fstats).contributors, acc))

\* AppState.stats before the run completes
NoStats == [ present |-> FALSE, stats |-> << >>, totalFiles |-> 0, uniqueOwners |-> 0 ]

(***************************************************************************)
(* String.prototype.localeCompare under the root collation: the primary    *)
(* weights (the letter, whatever its case; punctuation before letters)     *)
(* of the whole strings decide first, the case of the letters (lower       *)
(* before upper) only between strings of equal primary weights.            *)
(***************************************************************************)
PrimaryWeight(c) ==
  CASE c = "/" -> 1 [] c = "@" -> 2 [] c = "a" -> 10 [] c = "b" -> 11 [] c \in { "c", "C" } -> 12
    [] c = "d" -> 13 [] c = "l" -> 14 [] c = "s" -> 15 [] c = "t" -> 16 [] c = "x" -> 17
    [] c = "y" -> 18 [] OTHER -> 0

TertiaryWeight(c) == IF c = "C" THEN 1 ELSE 0

\* UTF-16 code unit
CodeUnit(c) ==
  CASE c = "*" -> 42 [] c = "/" -> 47 [] c = "?" -> 63 [] c = "@" -> 64 [] c = "C" -> 67
    [] c = "a" -> 97 [] c = "b" -> 98 [] c = "c" -> 99 [] c = "d" -> 100 [] c = "l" -> 108
    [] c = "s" -> 115 [] c = "t" -> 116 [] c = "x" -> 120 [] c = "y" -> 121 [] OTHER -> 0

\* -1, 0, 1: the lexicographic comparison of two sequences of numbers
RECURSIVE compareWeights(_, _)
compareWeights(u, v) ==
  IF u = << >> /\ v = << >> THEN 0
  ELSE IF u = << >> THEN -1
  ELSE IF v = << >> THEN 1
  ELSE IF Head(u) < Head(v) THEN -1
  ELSE IF Head(u) > Head(v) THEN 1
  ELSE compareWeights(Tail(u), Tail(v))

localeCompare(a, b) ==
  LET primary == compareWeights([ k \in DOMAIN a |-> PrimaryWeight(a[k]) ], [ k \in DOMAIN b |-> PrimaryWeight(b[k]) ])
  IN  IF primary # 0 THEN primary
      ELSE compareWeights([ k \in DOMAIN a |-> TertiaryWeight(a[k]) ], [ k \in DOMAIN b |-> TertiaryWeight(b[k]) ])

\* variant: the entries in the order the passes pushed them
sortByPath_unsorted(entries) == entries

\* fileOwners.sort((a, b) => a.filepath.localeCompare(b.filepath)): stable
RECURSIVE sortByPath(_)
sortByPath(entries) ==
  IF entries = << >> THEN << >>
  ELSE LET init == sortByPath(SubSeq(entries, 1, Len(entries) - 1))
           last == entries[Len(entries)]
           k == Cardinality({ j \in DOMAIN init : localeCompare(init[j].filepath, last.filepath) <= 0 })
       IN  SubSeq(init, 1, k) \o << last >> \o SubSeq(init, k + 1, Len(init))

(***************************************************************************)
(* The run: CodeOwnersApp.runAnalysis (src/src/components/CodeOwnersApp.tsx)*)
(* One action per resumption of an await; what follows a resumption up to  *)
(* the next await is part of the action.                                   *)
(***************************************************************************)
NoFile == << >>

Query(cmd, file) == [ type |-> "query", cmd |-> cmd, file |-> file, processed |-> 0, total |-> 0, failed |-> FALSE ]

Return(cmd, file, failed) == [ type |-> "return", cmd |-> cmd, file |-> file, processed |-> 0, total |-> 0, failed |-> failed ]

Progress(file, processed, total) == [ type |-> "progress", cmd |-> "", file |-> file, processed |-> processed, total |-> total, failed |-> FALSE ]

\* a line of the output file: a comment, a blank line, the "*" rule or the
\* line of a file; the padding of the path is left out
CommentLine(text) == [ kind |-> "comment", text |-> << "#", " " >> \o text, owners |-> << >> ]

BlankLine == [ kind |-> "blank", text |-> << >>, owners |-> << >> ]

\* owner.startsWith("@") ? owner : `@${owner}`
withAt(owner) == IF Len(owner) > 0 /\ owner[1] = "@" THEN owner ELSE << "@" >> \o owner

ownersList(owners) == [ n \in DOMAIN owners |-> withAt(owners[n]) ]

\* generateCodeowners: the header, one line per option that is set
headerLines ==
  << CommentLine(<< "Auto-generated" >>), CommentLine(<< "Generated on" >>),
     CommentLine(<< "Analysis period" >>), CommentLine(<< "Minimum commits threshold" >>) >>
  \o (IF "members" \in config.present THEN << CommentLine(<< "Members filter" >>) >> ELSE << >>)
  \o (IF "overrides" \in config.present THEN << CommentLine(<< "Override rules" >>) >> ELSE << >>)
  \o (IF config.maxOwners # 0 THEN << CommentLine(<< "Max owners per file" >>) >> ELSE << >>)
  \o (IF config.minOwners # 0 THEN << CommentLine(<< "Min owners per file" >>) >> ELSE << >>)
  \o (IF "projectOwners" \in config.present THEN << CommentLine(<< "Project owners (fallback)" >>) >> ELSE << >>)
  \o << BlankLine >>

\* generateCodeowners: the "*" rule of the project owners
projectOwnersLines ==
  IF Len(getProjectOwners) > 0
    THEN << CommentLine(<< "Default owners for all files" >>),
            [ kind |-> "default", text |-> << "*" >>, owners |-> ownersList(getProjectOwners) ],
            BlankLine >>
  ELSE << >>

\* filepath.includes("/") ? filepath.substring(0, filepath.lastIndexOf("/")) : ""
fileDir(filepath) ==
  IF Includes(filepath, "/") THEN SubSeq(filepath, 1, LastIndexOf(filepath, "/") - 1) ELSE << >>

\* the comment of a directory
directoryComment(dir) ==
  IF dir = << >> THEN CommentLine(<< "Root directory" >>) ELSE CommentLine(dir \o << "/" >>)

\* generateCodeowners: the loop that adds the files under directory comments
RECURSIVE fileLines(_, _, _)
fileLines(entries, currentDir, lines) ==
  IF entries = << >> THEN lines
  ELSE LET dir == fileDir(Head(entries).filepath)
           section == IF dir # currentDir
                        THEN (IF Len(lines) > 5 THEN << BlankLine >> ELSE << >>)
                             \o << directoryComment(dir) >>
                      ELSE << >>
           line == [ kind |-> "file", text |-> Head(entries).filepath,
                     owners |-> ownersList(Head(entries).owners) ]
       IN  fileLines(Tail(entries), dir, lines \o section \o << line >>)

\* generateCodeowners: the lines joined into the output file
renderLines(entries) == fileLines(entries, << >>, headerLines \o projectOwnersLines)

NoOutput == [ written |-> FALSE, entries |-> << >>, lines |-> << >> ]

Init ==
  /\ configSource = [ kind |-> "unread", config |-> EmptyConfig ]
  /\ lsFiles = << >>
  /\ config = EmptyConfig
  /\ minCommits \in { 1, 2 }
  /\ aborted = FALSE
  /\ fileStats = << >>
  /\ emailToUsername = << >>
  /\ pc = "start"
  /\ phase = "init"
  /\ files = << >>
  /\ i = 0
  /\ fileOwners = << >>
  /\ output = NoOutput
  /\ appStats = NoStats
  /\ events = << >>

\* getOwnershipStats on the generator of the run
getOwnershipStats ==
  LET acc == countFiles(emailToUsername, fileStats, [ stats |-> << >>, totalFiles |-> 0 ])
  IN  [ present |-> TRUE, stats |-> acc.stats, totalFiles |-> acc.totalFiles, uniqueOwners |-> Len(acc.stats) ]

\* setState((prev) => ({ ...prev, phase })): the cleanup that aborts runs
\* when the component unmounts, and React drops the state updates of an
\* unmounted component
setPhase(newPhase) == IF aborted THEN phase ELSE newPhase

\* the effect cleanup: abortController.abort().  The effect has run
\* runAnalysis to its first await before its cleanup can run.
Abort ==
  /\ pc \notin { "start", "done", "cancelled" }
  /\ ~aborted
  /\ aborted' = TRUE
  /\ UNCHANGED << configSource, lsFiles, config, minCommits, fileStats, emailToUsername,
                  pc, phase, files, i, fileOwners, output, appStats, events >>

\* runAnalysis up to the await of generator.loadConfig
Start ==
  /\ pc = "start"
  /\ phase' = "init"
  /\ pc' = "loadConfig"
  /\ UNCHANGED << configSource, lsFiles, config, minCommits, aborted, fileStats, emailToUsername,
                  files, i, fileOwners, output, appStats, events >>

\* loadConfig throws: the file is read and JSON.parse rejects its content
\* ("malformed"), or a configPath is given and fs.readFile finds no such
\* file ("missing").  Without a configPath, a codeown.json that fs.access
\* does not find ("absent") leaves the empty configuration.
loadConfigThrows(source) == source.kind \in { "malformed", "missing" }

\* variant: a failure to load is caught and leaves the empty configuration
LoadConfigReturn_ignoresError(source) ==
  /\ pc = "loadConfig"
  /\ configSource' = source
  /\ config' = source.config
  /\ events' = Append(events, Query("rev-parse", NoFile))
  /\ pc' = "branch"
  /\ UNCHANGED << lsFiles, minCommits, aborted, fileStats, emailToUsername,
                  phase, files, i, fileOwners, output, appStats >>

\* loadConfig returns or throws; then getProjectInfo asks for the branch
LoadConfigReturn(source) ==
  /\ pc = "loadConfig"
  /\ configSource' = source
  /\ IF loadConfigThrows(source)
       THEN /\ phase' = setPhase("error")
            /\ pc' = "done"
            /\ UNCHANGED << config, events >>
     ELSE /\ config' = source.config
          /\ events' = Append(events, Query("rev-parse", NoFile))
          /\ pc' = "branch"
          /\ UNCHANGED phase
  /\ UNCHANGED << lsFiles, minCommits, aborted, fileStats, emailToUsername,
                  files, i, fileOwners, output, appStats >>

\* getProjectInfo: the branch query returns and the remote is asked, or it
\* fails, getProjectInfo returns the unknown project and runAnalysis calls
\* getAllFiles.  The names of the project and the branch are only
\* displayed and are not part of the state.
BranchReturn(failed) ==
  /\ pc = "branch"
  /\ IF failed
       THEN /\ events' = events \o << Return("rev-parse", NoFile, TRUE), Query("ls-files", NoFile) >>
            /\ pc' = "appLs"
     ELSE /\ events' = events \o << Return("rev-parse", NoFile, FALSE), Query("remote", NoFile) >>
          /\ pc' = "remote"
  /\ UNCHANGED << configSource, lsFiles, config, minCommits, aborted, fileStats, emailToUsername,
                  phase, files, i, fileOwners, output, appStats >>

\* the remote query returns or fails (the name falls back to the
\* directory's); getProjectInfo returns and runAnalysis calls getAllFiles
RemoteReturn(failed) ==
  /\ pc = "remote"
  /\ events' = events \o << Return("remote", NoFile, failed), Query("ls-files", NoFile) >>
  /\ pc' = "appLs"
  /\ UNCHANGED << configSource, lsFiles, config, minCommits, aborted, fileStats, emailToUsername,
                  phase, files, i, fileOwners, output, appStats >>

\* getAllFiles returns to runAnalysis; analyzeRepository calls getAllFiles
AppLsReturn(lsOutput) ==
  /\ pc = "appLs"
  /\ lsFiles' = lsOutput
  /\ phase' = setPhase("analyzing")
  /\ events' = events \o << Return("ls-files", NoFile, FALSE), Query("ls-files", NoFile) >>
  /\ pc' = "analyzeLs"
  /\ UNCHANGED << configSource, config, minCommits, aborted, fileStats, emailToUsername,
                  files, i, fileOwners, output, appStats >>

\* generateCodeowners from the sort to the await of fs.writeFile.  The lines
\* are rendered from fileOwners in its order, one per entry; the header and
\* the directory comments between them are not part of the state.
writeEntries(entries, ev) ==
  /\ fileOwners' = sortByPath(entries)
  /\ events' = ev
  /\ pc' = "write"

\* runAnalysis after analyzeRepository: generateCodeowners up to its first await
startGenerate(e2u, stats, ev) ==
  /\ phase' = setPhase("generating")
  /\ IF "overrides" \in config.present
       THEN /\ fileOwners' = mainPass(e2u, stats)
            /\ events' = Append(ev, Query("ls-files", NoFile))
            /\ pc' = "genLs"
     ELSE writeEntries(mainPass(e2u, stats), ev)

\* variant: the progress call follows the start of the query
continueLoop_progressAfterQuery(fs, idx, e2u, stats, ev) ==
  /\ i' = idx
  /\ IF idx < Len(fs)
       THEN IF aborted
              THEN /\ pc' = "cancelled"
                   /\ events' = ev
                   /\ UNCHANGED << phase, fileOwners >>
            ELSE /\ events' = ev \o << Query("log", fs[idx + 1]), Progress(fs[idx + 1], idx, Len(fs)) >>
                 /\ pc' = "log"
                 /\ UNCHANGED << phase, fileOwners >>
     ELSE startGenerate(e2u, stats, ev)

\* analyzeRepository: the loop from index idx to its next await
continueLoop(fs, idx, e2u, stats, ev) ==
  /\ i' = idx
  /\ IF idx < Len(fs)
       THEN IF aborted
              THEN /\ pc' = "cancelled"
                   /\ events' = ev
                   /\ UNCHANGED << phase, fileOwners >>
            ELSE /\ events' = ev \o << Progress(fs[idx + 1], idx, Len(fs)), Query("log", fs[idx + 1]) >>
                 /\ pc' = "log"
                 /\ UNCHANGED << phase, fileOwners >>
     ELSE startGenerate(e2u, stats, ev)

\* getAllFiles returns to analyzeRepository
AnalyzeLsReturn ==
  /\ pc = "analyzeLs"
  /\ files' = getAllFiles(lsFiles)
  /\ continueLoop(files', 0, emailToUsername, fileStats, Append(events, Return("ls-files", NoFile, FALSE)))
  /\ UNCHANGED << configSource, lsFiles, config, minCommits, aborted, fileStats, emailToUsername, output, appStats >>

\* variant: a failed history query rejects analyzeRepository, and
\* runAnalysis catches the error
LogReturn_throws(failed) ==
  /\ pc = "log"
  /\ IF failed
       THEN /\ events' = Append(events, Return("log", files[i + 1], TRUE))
            /\ pc' = "done"
            /\ phase' = setPhase("error")
            /\ UNCHANGED << fileStats, emailToUsername, i, fileOwners >>
     ELSE LET filepath == files[i + 1]
              lines == runGitLog(filepath, FALSE)
              contributors == tallyLines(lines, << >>)
              e2u == rememberNames(lines, emailToUsername)
              stats == IF Len(contributors) > 0 THEN setFileStats(fileStats, filepath, contributors) ELSE fileStats
          IN  /\ emailToUsername' = e2u
              /\ fileStats' = stats
              /\ continueLoop(files, i + 1, e2u, stats, Append(events, Return("log", filepath, FALSE)))
  /\ UNCHANGED << configSource, lsFiles, config, minCommits, aborted, files, output, appStats >>

\* the history query of files[i] returns, or fails
LogReturn(failed) ==
  /\ pc = "log"
  /\ LET filepath == files[i + 1]
         lines == runGitLog(filepath, failed)
         contributors == tallyLines(lines, << >>)
         e2u == rememberNames(lines, emailToUsername)
         stats == IF Len(contributors) > 0 THEN setFileStats(fileStats, filepath, contributors) ELSE fileStats
     IN  /\ emailToUsername' = e2u
         /\ fileStats' = stats
         /\ continueLoop(files, i + 1, e2u, stats, Append(events, Return("log", filepath, failed)))
  /\ UNCHANGED << configSource, lsFiles, config, minCommits, aborted, files, output, appStats >>

\* getAllFiles returns to generateCodeowners
GenLsReturn ==
  /\ pc = "genLs"
  /\ writeEntries(fileOwners \o overridePass(fileStats, getAllFiles(lsFiles)),
                  Append(events, Return("ls-files", NoFile, FALSE)))
  /\ UNCHANGED << configSource, lsFiles, config, minCommits, aborted, fileStats, emailToUsername,
                  phase, files, i, output, appStats >>

\* fs.writeFile returns or throws
WriteReturn(failed) ==
  /\ pc = "write"
  /\ pc' = "done"
  /\ IF failed
       THEN /\ phase' = setPhase("error")
            /\ UNCHANGED << output, appStats >>
     ELSE /\ output' = [ written |-> TRUE, entries |-> fileOwners, lines |-> renderLines(fileOwners) ]
          /\ appStats' = IF aborted THEN appStats ELSE getOwnershipStats
          /\ phase' = setPhase("complete")
  /\ UNCHANGED << configSource, lsFiles, config, minCommits, aborted, fileStats, emailToUsername,
                  files, i, fileOwners, events >>

Next ==
  \/ Abort
  \/ Start
  \/ pc = "loadConfig" /\ \E source \in ConfigSources : LoadConfigReturn(source)
  \/ \E failed \in BOOLEAN : BranchReturn(failed)
  \/ \E failed \in BOOLEAN : RemoteReturn(failed)
  \/ pc = "appLs" /\ \E lsOutput \in TrackedLists : AppLsReturn(lsOutput)
  \/ AnalyzeLsReturn
  \/ \E failed \in BOOLEAN : LogReturn(failed)
  \/ GenLsReturn
  \/ \E failed \in BOOLEAN : WriteReturn(failed)

Spec == Init /\ [][Next]_vars

(***************************************************************************)
(* Vocabulary of the properties.                                           *)
(***************************************************************************)
\* the entries generateCodeowners has written to the output file
Emitted == IF output.written THEN output.entries ELSE << >>

EmittedFor(filepath) == { k \in DOMAIN Emitted : Emitted[k].filepath = filepath }

NoDuplicates(owners) == \A j, k \in DOMAIN owners : j # k => owners[j] # owners[k]

\* the override patterns that match a path, by their position in the map
MatchingOverrides(filepath) ==
  { n \in DOMAIN config.overrides : Minimatch(filepath, config.overrides[n].pattern) }

\* the tally of a path in the snapshot
TallyOf(filepath) ==
  LET hits == { k \in DOMAIN fileStats : fileStats[k].filepath = filepath }
  IN  IF hits = {} THEN << >> ELSE fileStats[CHOOSE k \in hits : TRUE].contributors

\* the git queries among the events
IsQuery(e) == e.type = "query"

NumQueries(ev) == Cardinality({ k \in DOMAIN ev : IsQuery(ev[k]) })

\* the events of the analysis loop: progress calls and history queries
LoopEvents == SelectSeq(events, LAMBDA e : e.type = "progress" \/ e.cmd = "log")

\* analyzeRepository has returned its results
AnalysisReturned == pc \in { "genLs", "write" } \/ (pc = "done" /\ ~loadConfigThrows(configSource))

(***************************************************************************)
(* C1.  Claim: in every entry emitted by generateCodeowners the owners     *)
(* list contains no identity twice.  The code tallies by e-mail address    *)
(* and maps each address to its user name when it emits, so two addresses  *)
(* of one user name give the name twice: the statement is violated.        *)
(***************************************************************************)
C1_NoDuplicateOwners == \A k \in DOMAIN Emitted : NoDuplicates(Emitted[k].owners)

(***************************************************************************)
(* C2.  For every file of the snapshot whose path matches at least one     *)
(* override pattern, exactly one entry is emitted, and its owners are the  *)
(* list configured for the matching pattern of highest specificity (the    *)
(* first such pattern of the map when several tie), whatever the tally,    *)
(* members, maxOwners, minOwners and minCommits are.                       *)
(***************************************************************************)
C2_OverrideWins ==
  output.written =>
    \A s \in DOMAIN fileStats :
      LET filepath == fileStats[s].filepath
          matching == MatchingOverrides(filepath)
      IN  matching # {} =>
            \E best \in matching :
              /\ \A n \in matching :
                   \/ getPatternSpecificity(config.overrides[n].pattern) < getPatternSpecificity(config.overrides[best].pattern)
                   \/ /\ getPatternSpecificity(config.overrides[n].pattern) = getPatternSpecificity(config.overrides[best].pattern)
                      /\ best <= n
              /\ Cardinality(EmittedFor(filepath)) = 1
              /\ \A k \in EmittedFor(filepath) : Emitted[k].owners = config.overrides[best].owners

\* a file with a tally is emitted with the list of the more specific of
\* several matching patterns, not the first of the map, and that list
\* differs from what the tally alone would give
C2_Witness ==
  /\ output.written
  /\ \E s \in DOMAIN fileStats :
       /\ Cardinality(MatchingOverrides(fileStats[s].filepath)) >= 2
       /\ \E k \in EmittedFor(fileStats[s].filepath) :
            /\ Emitted[k].owners # config.overrides[CHOOSE n \in MatchingOverrides(fileStats[s].filepath) :
                                      \A m \in MatchingOverrides(fileStats[s].filepath) : n <= m].owners
            /\ Emitted[k].owners # topOwners(emailToUsername, validContributors(emailToUsername, fileStats[s].contributors))

(***************************************************************************)
(* C3.  Claim as stated: every emitted entry has at most maxOwners()       *)
(* owners.  Violated by an override list longer than maxOwners and by      *)
(* supplementing up to a minOwners above maxOwners.                        *)
(***************************************************************************)
C3_AtMostMaxOwners == \A k \in DOMAIN Emitted : Len(Emitted[k].owners) <= getMaxOwners

\* C3, amended: an emitted entry that is not produced by an override has at
\* most max(maxOwners(), minOwners()) owners, so at most maxOwners() when
\* minOwners() <= maxOwners().
C3_AtMostMaxOrMinOwners ==
  \A k \in DOMAIN Emitted :
    ~getOverrideOwners(Emitted[k].filepath).found =>
      Len(Emitted[k].owners) <= Max(getMaxOwners, getMinOwners)

\* the cap acts: an emitted file has more valid contributors than maxOwners
\* and is emitted with exactly maxOwners owners
C3_Witness ==
  \E k \in DOMAIN Emitted :
    /\ ~getOverrideOwners(Emitted[k].filepath).found
    /\ Len(validContributors(emailToUsername, TallyOf(Emitted[k].filepath))) > getMaxOwners
    /\ getMinOwners <= getMaxOwners
    /\ Len(Emitted[k].owners) = getMaxOwners

(***************************************************************************)
(* C4.  Claim as stated: for an emitted entry not produced by an override, *)
(* if the distinct identities of the file's tally, its default owners and  *)
(* the project owners number at least minOwners(), the entry has at least  *)
(* minOwners() owners.  Violated when the tally holds contributors that    *)
(* the members filter, the maxOwners cap or minCommits leave out.          *)
(***************************************************************************)
TallyNames(filepath) == { usernameOf(emailToUsername, TallyOf(filepath)[k].email) : k \in DOMAIN TallyOf(filepath) }

SupplementNames(filepath) == Range(getDefaultOwners(filepath).owners) \cup Range(getProjectOwners)

C4_MinOwnersFromTally ==
  \A k \in DOMAIN Emitted :
    (/\ ~getOverrideOwners(Emitted[k].filepath).found
     /\ Cardinality(TallyNames(Emitted[k].filepath) \cup SupplementNames(Emitted[k].filepath)) >= getMinOwners)
    => Len(Emitted[k].owners) >= getMinOwners

\* the owners selected from the tally: members filter, cap and threshold
SelectedNames(filepath) ==
  Range(topOwners(emailToUsername, validContributors(emailToUsername, TallyOf(filepath))))

\* C4, amended: for an emitted entry not produced by an override, if the
\* distinct names among the owners selected from the tally (after the
\* members filter, the maxOwners cap and the minCommits threshold), the
\* file's default owners and the project owners number at least
\* minOwners(), the entry has at least minOwners() owners.
C4_MinOwnersFromSelected ==
  \A k \in DOMAIN Emitted :
    (/\ ~getOverrideOwners(Emitted[k].filepath).found
     /\ Cardinality(SelectedNames(Emitted[k].filepath) \cup SupplementNames(Emitted[k].filepath)) >= getMinOwners)
    => Len(Emitted[k].owners) >= getMinOwners

\* a single selected owner is topped up to minOwners from the defaults and
\* then the project owners
C4_Witness ==
  \E k \in DOMAIN Emitted :
    /\ ~getOverrideOwners(Emitted[k].filepath).found
    /\ Cardinality(SelectedNames(Emitted[k].filepath)) = 1
    /\ getMinOwners = 3
    /\ Len(Emitted[k].owners) = 3
    /\ Emitted[k].owners[3] \in Range(getProjectOwners)

(***************************************************************************)
(* C5.  Claim: once cancellation has been requested, no further            *)
(* version-control query is issued.  The abort flag is read only at the    *)
(* top of an iteration of the analysis loop, so queries issued before the  *)
(* loop, and the ls-files query of generateCodeowners after it, follow a   *)
(* request: the statement is violated.                                     *)
(***************************************************************************)
C5_NoQueryAfterCancel == [][aborted => NumQueries(events') = NumQueries(events)]_vars

(***************************************************************************)
(* C6.  Claim: in a run in which cancellation is requested before the run  *)
(* has completed, the output file is never written and the run ends        *)
(* neither in phase 'complete' nor in phase 'error'.  A request that       *)
(* arrives after the last check of the flag is never acted on: the         *)
(* statement is violated.                                                  *)
(***************************************************************************)
C6_CancelledRunWritesNothing ==
  aborted => /\ ~output.written
             /\ pc \in { "done", "cancelled" } => phase \notin { "complete", "error" }

(***************************************************************************)
(* C7.  Claim as stated: a file for which the history query returns zero   *)
(* commits never appears in the emitted entries.  Violated when the path   *)
(* matches an override: the override-only pass emits it.                   *)
(***************************************************************************)
\* the files whose history query returned, without failing, no commit
ZeroCommitFiles ==
  { events[k].file : k \in { n \in DOMAIN events :
      events[n].type = "return" /\ events[n].cmd = "log" /\ ~events[n].failed /\ GitLog(events[n].file) = << >> } }

C7_ZeroCommitsNeverEmitted == \A k \in DOMAIN Emitted : Emitted[k].filepath \notin ZeroCommitFiles

\* C7, amended: a file for which the history query returns zero commits
\* and whose path matches no override pattern never appears in the emitted
\* entries.
C7_ZeroCommitsNoOverrideNeverEmitted ==
  \A k \in DOMAIN Emitted :
    ~getOverrideOwners(Emitted[k].filepath).found => Emitted[k].filepath \notin ZeroCommitFiles

\* the output is written with other files in it, after a query returned no
\* commit for a file that none of the configured overrides matches, though
\* a default-owners pattern matches it
C7_Witness ==
  /\ output.written
  /\ Len(Emitted) > 0
  /\ "overrides" \in config.present
  /\ \E f \in ZeroCommitFiles :
       /\ ~getOverrideOwners(f).found
       /\ getDefaultOwners(f).found

(***************************************************************************)
(* C8.  Claim as stated: the emitted entries are in ascending              *)
(* lexicographic order of their paths (by UTF-16 code unit, the order of   *)
(* < on strings).  The code sorts with localeCompare, which puts a         *)
(* lower-case name before an upper-case one: violated.                     *)
(***************************************************************************)
CodeUnitCompare(a, b) == compareWeights([ k \in DOMAIN a |-> CodeUnit(a[k]) ], [ k \in DOMAIN b |-> CodeUnit(b[k]) ])

C8_SortedLexicographic ==
  \A j, k \in DOMAIN Emitted : j < k => CodeUnitCompare(Emitted[j].filepath, Emitted[k].filepath) <= 0

\* C8, amended: the emitted entries are in ascending order of their paths
\* under the collation order of String.prototype.localeCompare,
\* independently of the order in which the files were discovered, analyzed
\* or added by the override-only pass.
C8_SortedByLocaleCompare ==
  \A j, k \in DOMAIN Emitted : j < k => localeCompare(Emitted[j].filepath, Emitted[k].filepath) <= 0

\* two files analyzed in descending order of their paths are both emitted
C8_Witness ==
  \E s, t \in DOMAIN fileStats :
    /\ s < t
    /\ localeCompare(fileStats[s].filepath, fileStats[t].filepath) > 0
    /\ EmittedFor(fileStats[s].filepath) # {}
    /\ EmittedFor(fileStats[t].filepath) # {}

(***************************************************************************)
(* C9.  A history query that fails is an empty tally: the step in which    *)
(* it returns adds no snapshot entry and does not put the run in the error *)
(* state, and unless cancellation was requested the run goes on with the   *)
(* progress call and the query of the next file of the list, or with       *)
(* generateCodeowners after the last file.                                 *)
(***************************************************************************)
FailedLogReturnStep ==
  /\ pc = "log"
  /\ Len(events') > Len(events)
  /\ events'[Len(events) + 1] = Return("log", files[i + 1], TRUE)

C9_QueryFailureIsEmptyTally ==
  [][FailedLogReturnStep =>
       /\ fileStats' = fileStats
       /\ phase' # "error"
       /\ pc' # "done"
       /\ IF i + 1 < Len(files)
            THEN \/ aborted /\ pc' = "cancelled"
                 \/ /\ ~aborted
                    /\ pc' = "log"
                    /\ i' = i + 1
                    /\ events' = events \o << Return("log", files[i + 1], TRUE),
                                              Progress(files[i + 2], i + 1, Len(files)),
                                              Query("log", files[i + 2]) >>
          ELSE pc' \in { "genLs", "write" } /\ (aborted \/ phase' = "generating")]_vars

\* the query of a file with commits has failed, the file has no snapshot
\* entry, and the next file has been queried and has its entry
C9_Witness ==
  /\ AnalysisReturned
  /\ Len(files) = 2
  /\ \E k \in DOMAIN events : events[k] = Return("log", files[1], TRUE)
  /\ GitLog(files[1]) # << >>
  /\ ~hasFileStats(fileStats, files[1])
  /\ hasFileStats(fileStats, files[2])

(***************************************************************************)
(* C10.  The events of the analysis loop are, for the files f_0..f_{n-1}   *)
(* in order, the progress call (f_i, i, n), then the history query of f_i, *)
(* then its return: every progress call precedes the query of its file and *)
(* follows the return of the previous query, no query is issued while      *)
(* another is in flight, and when analyzeRepository returns there have     *)
(* been exactly n progress calls.                                          *)
(***************************************************************************)
C10_ProgressBeforeEachQuery ==
  LET loop == LoopEvents
  IN  /\ \A k \in DOMAIN loop :
           LET n == (k - 1) \div 3
           IN  /\ n < Len(files)
               /\ k % 3 = 1 => loop[k] = Progress(files[n + 1], n, Len(files))
               /\ k % 3 = 2 => loop[k].type = "query" /\ loop[k].file = files[n + 1]
               /\ k % 3 = 0 => loop[k].type = "return" /\ loop[k].file = files[n + 1]
      /\ AnalysisReturned => Len(loop) = 3 * Len(files)

\* analyzeRepository has returned from a list of at least two files
C10_Witness ==
  /\ AnalysisReturned
  /\ ~aborted
  /\ Len(files) >= 2
  /\ Len(SelectSeq(events, LAMBDA e : e.type = "progress")) = Len(files)

(***************************************************************************)
(* The pattern lookups on their own: ConfigManager.getOverrideOwners and   *)
(* getDefaultOwners applied to one path under a map of two patterns, one   *)
(* without wildcard characters and one with, in either order of the map.   *)
(***************************************************************************)
\* Array.prototype.join("/")
RECURSIVE Join(_)
Join(segments) ==
  IF Len(segments) = 0 THEN << >>
  ELSE IF Len(segments) = 1 THEN segments[1]
  ELSE segments[1] \o << "/" >> \o Join(Tail(segments))

LiteralSegments == { << "a" >>, << "b" >> }

PatternSegments == LiteralSegments \cup { << "*" >>, << "*", "*" >>, << "a", "*" >>, << "?" >> }

\* the paths and the patterns of at most MaxSegments segments
LookupPaths == { Join(q) : q \in SeqsUpTo(LiteralSegments, MaxSegments) \ { << >> } }

LookupPatterns == { Join(q) : q \in SeqsUpTo(PatternSegments, MaxSegments) \ { << >> } }

\* !pattern.includes("*") && !pattern.includes("?")
IsLiteral(pattern) == ~Includes(pattern, "*") /\ ~Includes(pattern, "?")

\* the map of a literal and a wildcard pattern, in one of its two orders
LookupMap(literal, wildcard, literalFirst) ==
  IF literalFirst
    THEN << [ pattern |-> literal, owners |-> << OwnerS >> ], [ pattern |-> wildcard, owners |-> << OwnerT >> ] >>
  ELSE << [ pattern |-> wildcard, owners |-> << OwnerT >> ], [ pattern |-> literal, owners |-> << OwnerS >> ] >>

LookupInit ==
  /\ \E filepath \in LookupPaths :
       /\ lsFiles = << filepath >>
       /\ \E literal \in { q \in LookupPatterns : IsLiteral(q) /\ Minimatch(filepath, q) } :
            \E wildcard \in { q \in LookupPatterns : ~IsLiteral(q) /\ Minimatch(filepath, q) } :
              \E literalFirst \in BOOLEAN :
                config = [ EmptyConfig EXCEPT !.present = { "overrides", "defaultOwners" },
                                              !.overrides = LookupMap(literal, wildcard, literalFirst),
                                              !.defaultOwners = LookupMap(literal, wildcard, literalFirst) ]
  /\ configSource = [ kind |-> "valid", config |-> config ]
  /\ minCommits = 1
  /\ aborted = FALSE
  /\ fileStats = << >>
  /\ emailToUsername = << >>
  /\ pc = "lookupOverride"
  /\ phase = "init"
  /\ files = << >>
  /\ i = 0
  /\ fileOwners = << >>
  /\ output = NoOutput
  /\ appStats = NoStats
  /\ events = << >>

\* getOverrideOwners(filepath) is called and its result kept
LookupOverride ==
  /\ pc = "lookupOverride"
  /\ fileOwners' = << [ filepath |-> lsFiles[1], owners |-> getOverrideOwners(lsFiles[1]).owners ] >>
  /\ pc' = "lookupDefault"
  /\ UNCHANGED << configSource, lsFiles, config, minCommits, aborted, fileStats, emailToUsername,
                  phase, files, i, output, appStats, events >>

\* getDefaultOwners(filepath) is called and its result kept
LookupDefault ==
  /\ pc = "lookupDefault"
  /\ fileOwners' = Append(fileOwners, [ filepath |-> lsFiles[1], owners |-> getDefaultOwners(lsFiles[1]).owners ])
  /\ pc' = "looked"
  /\ UNCHANGED << configSource, lsFiles, config, minCommits, aborted, fileStats, emailToUsername,
                  phase, files, i, output, appStats, events >>

LookupNext == LookupOverride \/ LookupDefault

LookupSpec == LookupInit /\ [][LookupNext]_vars

(***************************************************************************)
(* C11.  Whenever a pattern without wildcard characters and a pattern with *)
(* wildcard characters both match a path, the specificity of the literal   *)
(* pattern is strictly greater, and the override lookup and the default    *)
(* lookup both return the owner list of the literal pattern, whatever the  *)
(* order of the map, the number of segments of the wildcard pattern and    *)
(* the number of its "*" and "**".                                         *)
(***************************************************************************)
C11_LiteralOutranksWildcard ==
  \A n, m \in DOMAIN config.overrides :
    (/\ pc \in { "lookupOverride", "lookupDefault", "looked" }
     /\ IsLiteral(config.overrides[n].pattern)
     /\ ~IsLiteral(config.overrides[m].pattern)
     /\ Minimatch(lsFiles[1], config.overrides[n].pattern)
     /\ Minimatch(lsFiles[1], config.overrides[m].pattern))
    => /\ getPatternSpecificity(config.overrides[n].pattern) > getPatternSpecificity(config.overrides[m].pattern)
       /\ \A k \in DOMAIN fileOwners : fileOwners[k].owners = config.overrides[n].owners

\* both lookups have returned the literal pattern's owners although the
\* wildcard pattern comes first in the map, has more segments than the
\* literal one and holds a "**"
C11_Witness ==
  /\ pc = "looked"
  /\ Len(fileOwners) = 2
  /\ ~IsLiteral(config.overrides[1].pattern)
  /\ IncludesStarStar(config.overrides[1].pattern)
  /\ Len(Split(config.overrides[1].pattern, "/")) > Len(Split(config.overrides[2].pattern, "/"))
  /\ fileOwners[1].owners = << OwnerS >>
  /\ fileOwners[2].owners = << OwnerS >>

(***************************************************************************)
(* C12.  Claim as stated: when the configuration content is present but    *)
(* unparsable the run ends in the error state with no git query issued, no *)
(* snapshot entry and no output file; when no configuration file is        *)
(* present the run proceeds with the empty configuration.  Violated when   *)
(* the file named by --config does not exist: loadConfig throws.           *)
(***************************************************************************)
\* the run has ended at loadConfig: error state (unless the component is
\* unmounted), nothing asked of git, nothing recorded, nothing written
EndedAtLoadConfig ==
  /\ pc = "done"
  /\ aborted \/ phase = "error"
  /\ events = << >>
  /\ fileStats = << >>
  /\ ~output.written

\* the run has gone on from loadConfig with the empty configuration
ProceededWithEmptyConfig ==
  /\ config = EmptyConfig
  /\ Len(events) > 0
  /\ events[1] = Query("rev-parse", NoFile)

C12_AbsentFileIsEmptyConfig ==
  /\ configSource.kind = "malformed" => EndedAtLoadConfig
  /\ configSource.kind \in { "absent", "missing" } => ProceededWithEmptyConfig

\* C12, amended: when the configuration file is read and its content is
\* unparsable, or when a configuration path is given and the file cannot
\* be read (it does not exist), the run ends in the error state with no
\* git query issued, no snapshot entry and no output file; when no path is
\* given and there is no codeown.json in the working directory, the run
\* proceeds with the empty configuration.
C12_ConfigLoadError ==
  /\ configSource.kind \in { "malformed", "missing" } => EndedAtLoadConfig
  /\ configSource.kind = "absent" => ProceededWithEmptyConfig

\* loadConfig has thrown on unparsable content and the run is in the error
\* state
C12_Witness ==
  /\ configSource.kind = "malformed"
  /\ pc = "done"
  /\ phase = "error"

(***************************************************************************)
(* The file filter on its own: getAllFiles applied to one listed path      *)
(* under an include list and an exclude list of up to MaxListed patterns.  *)
(***************************************************************************)
FilterPatterns ==
  { << "a" >>, << "a", "/" >>, << "a", "/", "*" >>, << "*", "/", "c" >>, << "b" >> }

FilterPaths ==
  { << "a" >>, << "b" >>, << "a", "/", "b" >>, << "a", "/", "c" >>, << "b", "/", "c" >>,
    << "a", "/", "b", "/", "c" >> }

FilterInit ==
  /\ \E filepath \in FilterPaths : lsFiles = << filepath >>
  /\ \E include \in SeqsUpTo(FilterPatterns, MaxListed) :
       \E exclude \in SeqsUpTo(FilterPatterns, MaxListed) :
         config = [ EmptyConfig EXCEPT !.present = { "include", "exclude" },
                                       !.include = include, !.exclude = exclude ]
  /\ configSource = [ kind |-> "valid", config |-> config ]
  /\ minCommits = 1
  /\ aborted = FALSE
  /\ fileStats = << >>
  /\ emailToUsername = << >>
  /\ pc = "filter"
  /\ phase = "init"
  /\ files = << >>
  /\ i = 0
  /\ fileOwners = << >>
  /\ output = NoOutput
  /\ appStats = NoStats
  /\ events = << >>

\* getAllFiles filters the listed paths
Filter ==
  /\ pc = "filter"
  /\ files' = getAllFiles(lsFiles)
  /\ pc' = "filtered"
  /\ UNCHANGED << configSource, lsFiles, config, minCommits, aborted, fileStats, emailToUsername,
                  phase, i, fileOwners, output, appStats, events >>

FilterNext == Filter

FilterSpec == FilterInit /\ [][FilterNext]_vars

(***************************************************************************)
(* C13.  shouldIncludeFile(path) is false exactly when a non-empty include *)
(* list is configured and the path matches none of its patterns, or an     *)
(* exclude pattern matches the path; a path matched by both an include and *)
(* an exclude pattern is excluded.  A pattern matches when minimatch       *)
(* accepts the path under the pattern as written or as normalized.         *)
(***************************************************************************)
MatchesNoInclude(filepath) ==
  Len(config.include) > 0 /\ \A n \in DOMAIN config.include : ~matchesListed(filepath, config.include[n])

MatchesAnExclude(filepath) == \E n \in DOMAIN config.exclude : matchesListed(filepath, config.exclude[n])

C13_ShouldIncludeFile ==
  pc = "filtered" =>
    /\ files = << >> <=> (MatchesNoInclude(lsFiles[1]) \/ MatchesAnExclude(lsFiles[1]))
    /\ files # << >> => files = lsFiles
    /\ shouldIncludeFile(lsFiles[1]) <=> files # << >>

\* a path that an include pattern and an exclude pattern both match has
\* been filtered out
C13_Witness ==
  /\ pc = "filtered"
  /\ Len(config.include) > 0
  /\ ~MatchesNoInclude(lsFiles[1])
  /\ MatchesAnExclude(lsFiles[1])
  /\ files = << >>

(***************************************************************************)
(* C14.  Claim: the ownership summary attributes each emitted file to the  *)
(* first owner of its entry: the count of every owner is the number of     *)
(* emitted entries whose first owner it is, and the total is the number of *)
(* emitted entries.  getOwnershipStats counts every owner of an override   *)
(* list and passes over the files of the override-only pass: the statement *)
(* is violated.  Names are compared without their leading "@".             *)
(***************************************************************************)
FirstOwnerCount(username) ==
  Cardinality({ k \in DOMAIN Emitted : stripAt(Emitted[k].owners[1]) = username })

StatCount(username) ==
  LET hits == { k \in DOMAIN appStats.stats : appStats.stats[k].username = username }
  IN  IF hits = {} THEN 0 ELSE appStats.stats[CHOOSE k \in hits : TRUE].count

SummaryNames ==
  { appStats.stats[k].username : k \in DOMAIN appStats.stats }
  \cup { stripAt(Emitted[k].owners[1]) : k \in DOMAIN Emitted }

C14_SummaryCountsFirstOwners ==
  appStats.present =>
    /\ \A username \in SummaryNames : StatCount(username) = FirstOwnerCount(username)
    /\ appStats.totalFiles = Len(Emitted)

(***************************************************************************)
(* C15.  For an emitted file without a matching override, the owners taken *)
(* from the tally are: the contributors that pass shouldIncludeContributor,*)
(* ranked by commit count descending with ties in the order in which the   *)
(* contributors were first observed, cut to the first maxOwners() of that  *)
(* ranking, of which those with a count >= minCommits are kept, in that    *)
(* order.  They open the emitted owner list.                               *)
(***************************************************************************)
\* the positions of the tally that pass the members filter
ValidPositions(filepath) ==
  { k \in DOMAIN TallyOf(filepath) :
      shouldIncludeContributor(TallyOf(filepath)[k].email, usernameOf(emailToUsername, TallyOf(filepath)[k].email)) }

\* 1 for the contributor with the most commits; the earlier observed first on a tie
RankAt(filepath, k) ==
  1 + Cardinality({ j \in ValidPositions(filepath) :
                      \/ TallyOf(filepath)[j].count > TallyOf(filepath)[k].count
                      \/ TallyOf(filepath)[j].count = TallyOf(filepath)[k].count /\ j < k })

SelectedPositions(filepath) ==
  { k \in ValidPositions(filepath) :
      RankAt(filepath, k) <= getMaxOwners /\ TallyOf(filepath)[k].count >= minCommits }

ExpectedTallyOwners(filepath) ==
  [ n \in 1..Cardinality(SelectedPositions(filepath)) |->
      LET k == CHOOSE k \in SelectedPositions(filepath) :
                 Cardinality({ j \in SelectedPositions(filepath) : RankAt(filepath, j) < RankAt(filepath, k) }) = n - 1
      IN  usernameOf(emailToUsername, TallyOf(filepath)[k].email) ]

C15_TallyDerivedOwners ==
  \A k \in DOMAIN Emitted :
    ~getOverrideOwners(Emitted[k].filepath).found =>
      LET expected == ExpectedTallyOwners(Emitted[k].filepath)
      IN  /\ Len(expected) > 0
          /\ Len(expected) <= Len(Emitted[k].owners)
          /\ SubSeq(Emitted[k].owners, 1, Len(expected)) = expected

\* a file whose tally was observed in the order b@x (1 commit), a@x (2),
\* a@y (1) is emitted with the owners ranked a@x, b@x, a@y: the sort moved
\* a@x to the front and kept the tie in the order observed
C15_Witness ==
  \E k \in DOMAIN Emitted :
    /\ ~getOverrideOwners(Emitted[k].filepath).found
    /\ Len(TallyOf(Emitted[k].filepath)) = 3
    /\ TallyOf(Emitted[k].filepath)[1].email = EmailBX
    /\ minCommits = 1
    /\ Emitted[k].owners = << << "a" >>, << "b" >>, << "a" >> >>

(***************************************************************************)
(* C16.  Claim: when the owners taken from the tally number more than 0    *)
(* and fewer than minOwners(), the emitted list is that list followed by   *)
(* the unused names of defaultOwnersFor(path) in configured order, then    *)
(* the unused names of projectOwners(), cut as soon as minOwners() is      *)
(* reached; otherwise it is the list taken from the tally.  The loop over  *)
(* projectOwners never records what it appends, so a name listed twice in  *)
(* projectOwners is appended twice: the statement is violated.             *)
(***************************************************************************)
\* the names of a list that are not in `used`, each at its first occurrence
RECURSIVE UnusedNames(_, _)
UnusedNames(names, used) ==
  IF names = << >> THEN << >>
  ELSE IF Head(names) \in used THEN UnusedNames(Tail(names), used)
  ELSE << Head(names) >> \o UnusedNames(Tail(names), used \cup { Head(names) })

ExpectedSupplemented(filepath) ==
  LET base == ExpectedTallyOwners(filepath)
      fromDefaults == UnusedNames(getDefaultOwners(filepath).owners, Range(base))
      fromProject == UnusedNames(getProjectOwners, Range(base) \cup Range(fromDefaults))
      candidates == fromDefaults \o fromProject
  IN  IF Len(base) >= getMinOwners THEN base
      ELSE base \o SubSeq(candidates, 1, Min(getMinOwners - Len(base), Len(candidates)))

C17_EmittedIffSelected ==
  output.written =>
    \A n \in DOMAIN fileStats :
      ~getOverrideOwners(fileStats[n].filepath).found =>
        /\ EmittedFor(fileStats[n].filepath) # {} <=> SelectedPositions(fileStats[n].filepath) # {}
        /\ Cardinality(EmittedFor(fileStats[n].filepath)) <= 1

\* the run has completed without an entry for a file of the snapshot whose
\* contributors are all below minCommits, although a default-owners
\* pattern matches it and project owners are configured
C17_Witness ==
  /\ output.written
  /\ phase = "complete"
  /\ \E n \in DOMAIN fileStats :
       /\ ~getOverrideOwners(fileStats[n].filepath).found
       /\ ValidPositions(fileStats[n].filepath) # {}
       /\ SelectedPositions(fileStats[n].filepath) = {}
       /\ getDefaultOwners(fileStats[n].filepath).found
       /\ Len(getProjectOwners) > 0
       /\ EmittedFor(fileStats[n].filepath) = {}

(***************************************************************************)
(* C18.  Claim as stated: every tracked file that has no tally in the      *)
(* snapshot, whether never analyzed, newly added or excluded from          *)
(* analysis, and whose path matches an override pattern is emitted with    *)
(* that override's owners; the entries are added before the final sort,    *)
(* and a file with a snapshot entry gets no second entry.  Violated by a   *)
(* file that the include and exclude lists keep out of the analysis: the   *)
(* override-only pass lists the files through the same filter.             *)
(***************************************************************************)
\* the entries of a path are all the override's, and the output is sorted
OverrideEntries(filepath) ==
  /\ \A k \in EmittedFor(filepath) : Emitted[k].owners = getOverrideOwners(filepath).owners
  /\ \A j, k \in DOMAIN Emitted : j < k => localeCompare(Emitted[j].filepath, Emitted[k].filepath) <= 0

C18_OverrideOnlyPassAllFiles ==
  output.written =>
    \A n \in DOMAIN lsFiles :
      getOverrideOwners(lsFiles[n]).found =>
        /\ OverrideEntries(lsFiles[n])
        /\ IF hasFileStats(fileStats, lsFiles[n])
             THEN Cardinality(EmittedFor(lsFiles[n])) = 1
           ELSE EmittedFor(lsFiles[n]) # {}

\* C18, amended: every file listed by getAllFiles (tracked, without an
\* excluded extension, and passing shouldIncludeFile) that has no tally in
\* the snapshot and whose path matches an override pattern is emitted with
\* that override's owners; these entries are added before the final sort
\* and no such entry is added for a file that has a snapshot entry.  A
\* tracked file that the filter keeps out of the analysis is never emitted.
C18_OverrideOnlyPass ==
  output.written =>
    /\ \A n \in DOMAIN lsFiles :
         IF lsFiles[n] \in Range(getAllFiles(lsFiles))
           THEN getOverrideOwners(lsFiles[n]).found =>
                  /\ OverrideEntries(lsFiles[n])
                  /\ IF hasFileStats(fileStats, lsFiles[n])
                       THEN Cardinality(EmittedFor(lsFiles[n])) = 1
                     ELSE EmittedFor(lsFiles[n]) # {}
         ELSE EmittedFor(lsFiles[n]) = {}

\* the output holds the override entry of a file without tally next to
\* the single entry of a file of the snapshot that an override matches
C18_Witness ==
  /\ output.written
  /\ \E j, k \in DOMAIN Emitted :
       /\ ~hasFileStats(fileStats, Emitted[j].filepath)
       /\ Emitted[j].owners = getOverrideOwners(Emitted[j].filepath).owners
       /\ hasFileStats(fileStats, Emitted[k].filepath)
       /\ getOverrideOwners(Emitted[k].filepath).found
       /\ Cardinality(EmittedFor(Emitted[k].filepath)) = 1

(***************************************************************************)
(* C19.  Claim: the tally of an analyzed file is keyed by canonical        *)
(* identity: the count recorded for an identity is the number of commits   *)
(* returned for the file whose raw identity resolves to it, so raw         *)
(* identities with one user name are counted together; and the mapping of  *)
(* a raw identity, once made, never changes.  The tally is keyed by the    *)
(* e-mail address as printed, so two addresses with one user name are      *)
(* counted apart: the statement is violated.                               *)
(***************************************************************************)
\* the commits of a file whose author resolves to a user name
CommitsOf(filepath, username) ==
  Cardinality({ n \in DOMAIN GitLog(filepath) :
                  usernameOf(emailToUsername, GitLog(filepath)[n].email) = username })

CountedByCanonicalIdentity ==
  \A n \in DOMAIN fileStats :
    \A k \in DOMAIN fileStats[n].contributors :
      fileStats[n].contributors[k].count =
        CommitsOf(fileStats[n].filepath, usernameOf(emailToUsername, fileStats[n].contributors[k].email))

MappingNeverRevisited ==
  \A email \in DOMAIN emailToUsername :
    email \in DOMAIN emailToUsername' /\ emailToUsername'[email] = emailToUsername[email]

C19_TallyKeyedByCanonicalIdentity == [](CountedByCanonicalIdentity) /\ [][MappingNeverRevisited]_vars

(***************************************************************************)
(* C20.  Claim: in the output file, every file line that is the first file *)
(* line, or whose directory differs from that of the file line before it,  *)
(* comes right after a comment naming its directory ("# Root directory"    *)
(* for a file of the root); and a blank line is inserted before each       *)
(* directory group except the very first.  The loop starts with the        *)
(* current directory "", the directory of a root file, so a root file that *)
(* comes first gets no comment; and the blank line is left out only when   *)
(* the header has no option line: the statement is violated.               *)
(***************************************************************************)
\* the positions of the file lines of the output
FileLinePositions == { n \in DOMAIN output.lines : output.lines[n].kind = "file" }

\* a file line that starts a directory group
StartsGroup(n) ==
  /\ n \in FileLinePositions
  /\ \/ n - 1 \notin FileLinePositions
     \/ fileDir(output.lines[n - 1].text) # fileDir(output.lines[n].text)

IsFirstFileLine(n) == n \in FileLinePositions /\ \A k \in FileLinePositions : n <= k

\* the first line of the group a file line starts: its comment, if it has one
GroupStart(n) ==
  IF n > 1 /\ output.lines[n - 1].kind = "comment" THEN n - 1 ELSE n

DirectoryCommentPrecedes ==
  \A n \in DOMAIN output.lines :
    StartsGroup(n) => n > 1 /\ output.lines[n - 1] = directoryComment(fileDir(output.lines[n].text))

SeparatorBeforeAllButFirst ==
  \A n \in DOMAIN output.lines :
    StartsGroup(n) =>
      IF IsFirstFileLine(n)
        THEN GroupStart(n) = Len(headerLines \o projectOwnersLines) + 1
      ELSE GroupStart(n) > 1 /\ output.lines[GroupStart(n) - 1] = BlankLine

C20_DirectoryCommentsAndSeparators == DirectoryCommentPrecedes /\ SeparatorBeforeAllButFirst

(***************************************************************************)
(* C21.  Claim: every file path appears in at most one entry of the        *)
(* output of a generateCodeowners run, for any list of tracked files that  *)
(* git returns: the pass over the snapshot and the override-only pass      *)
(* never emit the same path, and neither emits a path twice.  The snapshot *)
(* is keyed by path, so the first pass emits a path once; the              *)
(* override-only pass walks the list as git printed it, so a path that is  *)
(* listed twice and has no snapshot entry is emitted twice: the statement  *)
(* is violated.                                                            *)
(***************************************************************************)
C21_PathEmittedAtMostOnce ==
  \A j, k \in DOMAIN Emitted : Emitted[j].filepath = Emitted[k].filepath => j = k

====
